---- MODULE Spec2Model ----
(***************************************************************************)
(* A model of the document question-answering application:                 *)
(*   utils.py               chunk_text, create_citation                    *)
(*   document_processor.py  process_document, process_multiple_documents   *)
(*   qa_system.py           EnhancedQASystem                               *)
(*   app.py                 the Streamlit session (sidebar, main_content)  *)
(*                                                                         *)
(* Strings are sequences of one-character strings, so that slicing,        *)
(* searching, trimming and concatenation are computed, not assumed.        *)
(* Python indices are 0-based: the character at Python index i of a text   *)
(* is text[i + 1] here.                                                    *)
(***************************************************************************)
EXTENDS Integers, Sequences, FiniteSets, TLC

VARIABLES
    \* ---- one call of utils.chunk_text ----
    text,            \* argument text
    chunk_size,      \* argument chunk_size
    chunk_overlap,   \* argument chunk_overlap
    start,           \* local variable start
    chunks,          \* local variable chunks (the list returned)
    windows,         \* history: the window [s, e) of every loop iteration, and
                     \* whether its chunk was appended
    pc,              \* "call" | "loop" | "done"
    \* ---- DocumentProcessor.process_multiple_documents ----
    uploaded_files,  \* the batch handed to process_multiple_documents
    result,          \* what it returned: success, message and data
    next_uuid,       \* uuid.uuid4(): an identifier never handed out before
    \* ---- one call into the answer engine of qa_system.py ----
    source_docs,     \* the source documents the retrieval chain returns
    citation,        \* what create_citation returned
    confidence,      \* what _calculate_confidence returned, in hundredths
    response,        \* how get_enhanced_response ended: raised, and the dict
    call_env,        \* what the call met: "ok", "no_chain", "retrieval_error",
                     \* "generator_error" ("none" before a call)
    \* ---- the Streamlit session of app.py ----
    session_state,   \* st.session_state: messages, conversation_history,
                     \* document_metadata, executive_summary
    qa_system,       \* init_systems()['qa_system']: vectorstore, qa_chain,
                     \* document_metadata
    chroma_db,       \* the collection kept in the directory ./chroma_db
    clock,           \* datetime.now(), counted in answered questions
    last_ask,        \* history: how the last question was handled
    last_build,      \* history: the last call of initialize_vectorstore
    reset_pending,   \* history: Clear All ran and no index was built since
    last_op          \* the operation that ran last

chunkVars == <<text, chunk_size, chunk_overlap, start, chunks, windows, pc>>

ingestVars == <<uploaded_files, result, next_uuid>>

answerVars == <<source_docs, citation, confidence, response, call_env>>

appVars ==
    <<session_state, qa_system, chroma_db, clock, last_ask, last_build, reset_pending>>

vars == <<chunkVars, ingestVars, answerVars, appVars, last_op>>

\* what a call of chunk_text, of process_multiple_documents and of the answer
\* engine leave alone
outsideChunk == <<ingestVars, answerVars, appVars, last_op>>

outsideIngest == <<chunkVars, answerVars, appVars>>

outsideAnswer == <<chunkVars, ingestVars, appVars>>

\* what the handlers of app.py leave alone
outsideApp == <<chunkVars, answerVars>>

----------------------------------------------------------------------------
(* Bounds of the model. *)

MaxLen == 6          \* longest text given to chunk_text
MaxSize == 5         \* largest chunk_size given to chunk_text
MaxOverlap == 5      \* largest chunk_overlap given to chunk_text
MaxIter == 6         \* loop iterations of chunk_text that are followed
MaxBatch == 3        \* most files in one batch given to process_multiple_documents
MaxUpload == 2        \* most files in one upload of the session
MaxUuid == 2          \* most files processed in one session
MaxTurns == 2         \* most questions answered in one session
MaxSources == 4      \* most source documents in one retrieval result

----------------------------------------------------------------------------
(* Python string primitives. *)

Whitespace == {" "}

Alphabet == {"a", " ", "."}

Texts == UNION {[1..n -> Alphabet] : n \in 0..MaxLen}

Max2(a, b) == IF a >= b THEN a ELSE b

Min2(a, b) == IF a <= b THEN a ELSE b

\* How Python turns a slice bound into an offset in 0..n: a negative bound
\* counts from the end, and the result is clamped to the string.
SliceIndex(i, n) == IF i < 0 THEN Max2(i + n, 0) ELSE Min2(i, n)

\* s[lo:hi]
Slice(s, lo, hi) ==
    LET a == SliceIndex(lo, Len(s))
        b == SliceIndex(hi, Len(s))
    IN  IF a >= b THEN <<>> ELSE SubSeq(s, a + 1, b)

\* the largest element of a non-empty set of integers
SetMax(S) == CHOOSE i \in S : \A j \in S : j <= i

\* the indices a..b of s that hold ch
hits(s, ch, a, b) == {i \in a..b : s[i + 1] = ch}

\* s.rfind(ch, lo, hi): the highest index in s[lo:hi] holding ch, or -1
rfind(s, ch, lo, hi) ==
    IF hits(s, ch, SliceIndex(lo, Len(s)), SliceIndex(hi, Len(s)) - 1) = {}
    THEN -1
    ELSE SetMax(hits(s, ch, SliceIndex(lo, Len(s)), SliceIndex(hi, Len(s)) - 1))

\* s.strip()
RECURSIVE lstrip(_)
lstrip(s) ==
    IF s # <<>> /\ Head(s) \in Whitespace THEN lstrip(Tail(s)) ELSE s

RECURSIVE rstrip(_)
rstrip(s) ==
    IF s # <<>> /\ s[Len(s)] \in Whitespace
    THEN rstrip(SubSeq(s, 1, Len(s) - 1))
    ELSE s

strip(s) == rstrip(lstrip(s))

----------------------------------------------------------------------------
(* utils.chunk_text, one loop iteration at a time. *)

\* lines 55-59: the last sentence terminator inside the window
sentence_end(t, s, e) ==
    Max2(rfind(t, ".", s, e), Max2(rfind(t, "!", s, e), rfind(t, "?", s, e)))

\* lines 61-62: the window is cut just after a terminator past its midpoint
shorten(e, se, s, size) == IF se > s + (size \div 2) THEN se + 1 ELSE e

\* lines 50-62: the end of the window that starts at s
window_end(t, size, s) ==
    IF s + size < Len(t)
    THEN shorten(s + size, sentence_end(t, s, s + size), s, size)
    ELSE s + size

\* a chunker that steps one character past the overlap
next_start_gap(e, overlap) == e - overlap + 1

\* line 68
next_start(e, overlap) == e - overlap

\* lines 43-47: the call; an empty text returns [] at once
ChunkEnter ==
    /\ pc = "call"
    /\ pc' = IF text = <<>> THEN "done" ELSE "loop"
    /\ UNCHANGED <<text, chunk_size, chunk_overlap, start, chunks, windows>>
    /\ UNCHANGED outsideChunk

\* lines 49-71: one iteration of the while loop
ChunkIterate ==
    /\ pc = "loop"
    /\ start < Len(text)
    /\ Len(windows) < MaxIter
    /\ \E e \in {window_end(text, chunk_size, start)} :
       \E chunk \in {strip(Slice(text, start, e))} :
          /\ chunks' = IF chunk # <<>> THEN Append(chunks, chunk) ELSE chunks
          /\ windows' = Append(windows, [s |-> start, e |-> e, kept |-> chunk # <<>>])
          /\ start' = next_start(e, chunk_overlap)
          /\ pc' = IF start' >= Len(text) THEN "done" ELSE "loop"
    /\ UNCHANGED <<text, chunk_size, chunk_overlap>>
    /\ UNCHANGED outsideChunk

\* utils.chunk_text as a function of its arguments (lines 41-73), for the
\* callers that use its result
RECURSIVE chunk_loop(_, _, _, _, _)
RECURSIVE chunk_step(_, _, _, _, _, _)
chunk_step(t, size, overlap, s, e, acc) ==
    LET chunk == strip(Slice(t, s, e))
        acc2 == IF chunk # <<>> THEN Append(acc, chunk) ELSE acc
    IN  IF next_start(e, overlap) >= Len(t)
        THEN acc2
        ELSE chunk_loop(t, size, overlap, next_start(e, overlap), acc2)

chunk_loop(t, size, overlap, s, acc) ==
    IF s < Len(t)
    THEN chunk_step(t, size, overlap, s, window_end(t, size, s), acc)
    ELSE acc

chunk_text(t, size, overlap) ==
    IF t = <<>> THEN <<>> ELSE chunk_loop(t, size, overlap, 0, <<>>)

----------------------------------------------------------------------------
(* More Python primitives. *)

\* s.endswith(suffix)
endswith(s, suffix) ==
    /\ Len(s) >= Len(suffix)
    /\ SubSeq(s, Len(s) - Len(suffix) + 1, Len(s)) = suffix

\* s.split('.')[-1]: what follows the last '.', the whole of s without one
last_dot_part(s) == SubSeq(s, rfind(s, ".", 0, Len(s)) + 2, Len(s))

\* sub in s
contains(s, sub) ==
    \E i \in 0..(Len(s) - Len(sub)) : SubSeq(s, i + 1, i + Len(sub)) = sub

Digits == <<"0", "1", "2", "3", "4", "5", "6", "7", "8", "9">>

\* str(n) of an integer n >= 0
RECURSIVE str(_)
str(n) == IF n < 10 THEN <<Digits[n + 1]>> ELSE str(n \div 10) \o <<Digits[(n % 10) + 1]>>

\* the concatenation of a sequence of strings
RECURSIVE concat(_)
concat(ss) == IF ss = <<>> THEN <<>> ELSE Head(ss) \o concat(Tail(ss))

\* a dict with key k set to v; keys are kept in ascending order, which is the
\* insertion order of the dicts built here
dict_put(d, k, v) == [x \in (DOMAIN d) \cup {k} |-> IF x = k THEN v ELSE d[x]]

EmptyDict == [x \in {} |-> x]

----------------------------------------------------------------------------
(* document_processor.py *)

(* An uploaded file, with what its processing meets in the environment:     *)
(*   name       uploaded_file.name                                          *)
(*   pages      the text of each page (a text file is one page)             *)
(*   fault      "none"; "unreadable": the loader's own try/except returns   *)
(*              no text; "io_error": an exception inside process_document   *)
(*   llm_fails  the summarising model call raises                           *)
(*   llm_reply  the summary the model returns otherwise                     *)

DotPdf == <<".", "p", "d", "f">>

DotTxt == <<".", "t", "x", "t">>

\* utils.load_pdf(path, return_page_info=True)
load_pdf(f) ==
    IF f.fault = "unreadable"
    THEN [text |-> <<>>, page_info |-> <<>>]
    ELSE [text |-> concat(f.pages),
          page_info |-> [i \in 1..Len(f.pages) |-> [page |-> i, content |-> f.pages[i]]]]

\* utils.load_txt(path)
load_txt(f) == IF f.fault = "unreadable" THEN <<>> ELSE concat(f.pages)

\* lines 33-37: text and page_info by file type
extract(f) ==
    IF endswith(f.name, DotPdf)
    THEN load_pdf(f)
    ELSE [text |-> load_txt(f),
          page_info |-> <<[page |-> 1, content |-> load_txt(f)]>>]

\* DocumentProcessor._generate_summary
SummaryFallback == <<"Summary generation failed - document content available for querying.">>

_generate_summary(f) == IF f.llm_fails THEN SummaryFallback ELSE f.llm_reply

\* DocumentProcessor._find_page_number
_find_page_number(chunk, page_info) ==
    LET found == {i \in 1..Len(page_info) :
                     contains(page_info[i].content, Slice(chunk, 0, 100))}
    IN  IF found = {} THEN 1
        ELSE page_info[CHOOSE i \in found : \A j \in found : i <= j].page

DocChunkSize == 1000

DocChunkOverlap == 200

NoData == [documents |-> <<>>, metadata |-> EmptyDict]

\* lines 64-78: the Document of chunk i (0-based chunk_id)
make_document(f, file_id, chunk_list, page_info, i) ==
    [page_content |-> chunk_list[i],
     metadata |-> [source |-> f.name,
                   file_id |-> file_id,
                   chunk_id |-> i - 1,
                   page_number |-> _find_page_number(chunk_list[i], page_info),
                   file_type |-> last_dot_part(f.name)]]

\* lines 50-83: the file has text
process_text(f, file_id, ex, chunk_list) ==
    [success |-> TRUE,
     message |-> <<"Document processed! Created ">> \o str(Len(chunk_list)) \o <<" chunks.">>,
     data |-> [documents |-> [i \in 1..Len(chunk_list) |->
                                 make_document(f, file_id, chunk_list, ex.page_info, i)],
               metadata |-> [file_id |-> file_id,
                             filename |-> f.name,
                             file_type |-> last_dot_part(f.name),
                             upload_time |-> "now",
                             total_chunks |-> Len(chunk_list),
                             page_info |-> ex.page_info,
                             summary |-> _generate_summary(f)]]]

\* DocumentProcessor.process_document
process_document(f, file_id) ==
    IF f.fault = "io_error"
    THEN [success |-> FALSE, message |-> <<"Error processing document: ", "io_error">>,
          data |-> NoData]
    ELSE IF ~(endswith(f.name, DotPdf) \/ endswith(f.name, DotTxt))
    THEN [success |-> FALSE,
          message |-> <<"Unsupported file type. Please upload PDF or TXT files.">>,
          data |-> NoData]
    ELSE IF strip(extract(f).text) = <<>>
    THEN [success |-> FALSE, message |-> <<"No text could be extracted from the file.">>,
          data |-> NoData]
    ELSE process_text(f, file_id, extract(f),
                      chunk_text(extract(f).text, DocChunkSize, DocChunkOverlap))

\* a loop body that counts every file it has seen as a success
ingest_step_count_all(acc, r, file_id) ==
    IF r.success
    THEN [documents |-> acc.documents \o r.data.documents,
          metadata |-> dict_put(acc.metadata, file_id, r.data.metadata),
          success_count |-> acc.success_count + 1]
    ELSE [acc EXCEPT !.success_count = @ + 1]

\* lines 126-130: what one file's outcome r adds to the accumulated batch
ingest_step(acc, r, file_id) ==
    IF r.success
    THEN [documents |-> acc.documents \o r.data.documents,
          metadata |-> dict_put(acc.metadata, file_id, r.data.metadata),
          success_count |-> acc.success_count + 1]
    ELSE acc

\* lines 122-130: the loop over the batch; file i gets identifier first_id + i - 1
RECURSIVE ingest_loop(_, _, _, _)
ingest_loop(files, i, first_id, acc) ==
    IF i > Len(files) THEN acc
    ELSE ingest_loop(files, i + 1, first_id,
                     ingest_step(acc, process_document(files[i], first_id + i - 1),
                                 first_id + i - 1))

\* lines 132-137
batch_result(files, acc) ==
    IF acc.success_count > 0
    THEN [success |-> TRUE,
          message |-> <<"Processed ">> \o str(acc.success_count) \o <<"/">>
                      \o str(Len(files)) \o <<" documents successfully.">>,
          data |-> [documents |-> acc.documents, metadata |-> acc.metadata]]
    ELSE [success |-> FALSE, message |-> <<"Failed to process any documents.">>,
          data |-> NoData]

\* DocumentProcessor.process_multiple_documents
process_multiple_documents(files, first_id) ==
    batch_result(files,
                 ingest_loop(files, 1, first_id,
                             [documents |-> <<>>, metadata |-> EmptyDict,
                              success_count |-> 0]))

(* The files a batch is drawn from. *)

FilePdf ==
    [name |-> <<"a", ".", "p", "d", "f">>, pages |-> <<<<"a", ".", " ">>, <<"b", "!">>>>, fault |-> "none",
     llm_fails |-> FALSE, llm_reply |-> <<"A">>]

FileTxt ==
    [name |-> <<"b", ".", "t", "x", "t">>, pages |-> <<<<" ", "b", ".", "b", " ">>>>, fault |-> "none",
     llm_fails |-> TRUE, llm_reply |-> <<>>]

FileLong ==
    [name |-> <<"l", ".", "t", "x", "t">>, pages |-> <<[i \in 1..1100 |-> IF i = 900 THEN "." ELSE "x"]>>,
     fault |-> "none", llm_fails |-> FALSE, llm_reply |-> <<"L">>]

FileBlank ==
    [name |-> <<"c", ".", "t", "x", "t">>, pages |-> <<<<" ", " ">>>>, fault |-> "none",
     llm_fails |-> FALSE, llm_reply |-> <<"C">>]

FileUnsupported ==
    [name |-> <<"d", ".", "d", "o", "c">>, pages |-> <<<<"d">>>>, fault |-> "none",
     llm_fails |-> FALSE, llm_reply |-> <<"D">>]

FileUnreadable ==
    [name |-> <<"e", ".", "p", "d", "f">>, pages |-> <<<<"e">>>>, fault |-> "unreadable",
     llm_fails |-> FALSE, llm_reply |-> <<"E">>]

FileIoError ==
    [name |-> <<"f", ".", "t", "x", "t">>, pages |-> <<<<"f">>>>, fault |-> "io_error",
     llm_fails |-> FALSE, llm_reply |-> <<"F">>]

SampleFiles ==
    {FilePdf, FileTxt, FileLong, FileBlank, FileUnsupported, FileUnreadable, FileIoError}

Batches == UNION {[1..n -> SampleFiles] : n \in 1..MaxBatch}

NoResult == [success |-> FALSE, message |-> <<>>, data |-> NoData]

\* one call of process_multiple_documents on the batch drawn
IngestBatch ==
    /\ last_op = "init"
    /\ result' = process_multiple_documents(uploaded_files, next_uuid)
    /\ next_uuid' = next_uuid + Len(uploaded_files)
    /\ last_op' = "process_multiple_documents"
    /\ UNCHANGED uploaded_files
    /\ UNCHANGED outsideIngest

----------------------------------------------------------------------------
(* utils.create_citation and the answer engine of qa_system.py.            *)
(*                                                                         *)
(* A source document is [content_len, metadata]: of its page_content the   *)
(* answer engine reads the length (and a 200-character preview), so a      *)
(* content is kept as its length. A confidence is kept in hundredths.      *)

Unknown == <<"U", "n", "k", "n", "o", "w", "n">>

\* metadata.get('source', 'Unknown')
source_of(md) == IF "source" \in DOMAIN md THEN md.source ELSE Unknown

\* metadata.get('page_number', 'Unknown') as an f-string prints it
page_of(md) == IF "page_number" \in DOMAIN md THEN str(md.page_number) ELSE Unknown

\* a key that forgets the page
citation_key_source_only(md) == source_of(md)

\* utils.py line 94
citation_key(md) == source_of(md) \o <<"_">> \o page_of(md)

\* utils.py line 96
citation_entry(md) == source_of(md) \o <<" ", "(", "P", "a", "g", "e", " ">> \o page_of(md) \o <<")">>

\* utils.py lines 90-97: one source document
citation_step(acc, doc) ==
    IF citation_key(doc.metadata) \notin acc.seen
    THEN [citations |-> Append(acc.citations, citation_entry(doc.metadata)),
          seen |-> acc.seen \cup {citation_key(doc.metadata)}]
    ELSE acc

RECURSIVE citation_loop(_, _)
citation_loop(docs, acc) ==
    IF docs = <<>> THEN acc ELSE citation_loop(Tail(docs), citation_step(acc, Head(docs)))

\* sep.join(parts)
RECURSIVE join(_, _)
join(sep, parts) ==
    IF parts = <<>> THEN <<>>
    ELSE IF Len(parts) = 1 THEN parts[1]
    ELSE parts[1] \o sep \o join(sep, Tail(parts))

\* utils.create_citation
create_citation(docs) ==
    join(<<";", " ">>, citation_loop(docs, [citations |-> <<>>, seen |-> {}]).citations)

\* qa_system.py line 114
source_key(md) ==
    source_of(md) \o <<"_">>
    \o (IF "page_number" \in DOMAIN md THEN str(md.page_number) ELSE str(1))

\* qa_system.py lines 117-123
source_entry(doc) ==
    [filename |-> source_of(doc.metadata),
     page_number |-> IF "page_number" \in DOMAIN doc.metadata
                     THEN doc.metadata.page_number ELSE 1,
     chunk_id |-> IF "chunk_id" \in DOMAIN doc.metadata THEN doc.metadata.chunk_id ELSE 0,
     file_type |-> IF "file_type" \in DOMAIN doc.metadata
                   THEN doc.metadata.file_type ELSE <<"u", "n", "k", "n", "o", "w", "n">>,
     content_preview |-> [shown |-> Min2(doc.content_len, 200),
                          ellipsis |-> doc.content_len > 200]]

RECURSIVE source_info_loop(_, _)
source_info_loop(docs, acc) ==
    IF docs = <<>> THEN acc
    ELSE source_info_loop(
            Tail(docs),
            IF source_key(Head(docs).metadata) \notin acc.seen
            THEN [info |-> Append(acc.info, source_entry(Head(docs))),
                  seen |-> acc.seen \cup {source_key(Head(docs).metadata)}]
            ELSE acc)

\* EnhancedQASystem._extract_source_info
_extract_source_info(docs) == source_info_loop(docs, [info |-> <<>>, seen |-> {}]).info

\* the lower-case letter of each upper-case letter
LowerOf ==
    [c \in {"A", "B", "C", "D", "E", "F", "G", "H", "I", "J", "K", "L", "M", "N", "O",
            "P", "Q", "R", "S", "T", "U", "V", "W", "X", "Y", "Z"} |->
        CASE c = "A" -> "a" [] c = "B" -> "b" [] c = "C" -> "c" [] c = "D" -> "d"
          [] c = "E" -> "e" [] c = "F" -> "f" [] c = "G" -> "g" [] c = "H" -> "h"
          [] c = "I" -> "i" [] c = "J" -> "j" [] c = "K" -> "k" [] c = "L" -> "l"
          [] c = "M" -> "m" [] c = "N" -> "n" [] c = "O" -> "o" [] c = "P" -> "p"
          [] c = "Q" -> "q" [] c = "R" -> "r" [] c = "S" -> "s" [] c = "T" -> "t"
          [] c = "U" -> "u" [] c = "V" -> "v" [] c = "W" -> "w" [] c = "X" -> "x"
          [] c = "Y" -> "y" [] c = "Z" -> "z"]

\* s.lower()
lower(s) == [i \in 1..Len(s) |-> IF s[i] \in DOMAIN LowerOf THEN LowerOf[s[i]] ELSE s[i]]

\* the elements of a set of integers in ascending order
RECURSIVE ascending(_)
ascending(S) ==
    IF S = {} THEN <<>>
    ELSE <<CHOOSE i \in S : \A j \in S : i <= j>>
         \o ascending(S \ {CHOOSE i \in S : \A j \in S : i <= j})

\* the pieces of s between the positions listed in bounds
pieces(s, bounds) ==
    [k \in 1..(Len(bounds) - 1) |-> SubSeq(s, bounds[k] + 1, bounds[k + 1] - 1)]

\* s.split('.')
split_dots(s) ==
    pieces(s, <<0>> \o ascending({i \in 1..Len(s) : s[i] = "."}) \o <<Len(s) + 1>>)

important_words ==
    <<<<"i", "m", "p", "o", "r", "t", "a", "n", "t">>, <<"k", "e", "y">>, <<"s", "i", "g", "n", "i", "f", "i", "c", "a", "n", "t">>, <<"m", "a", "i", "n">>, <<"p", "r", "i", "m", "a", "r", "y">>, <<"e", "s", "s", "e", "n", "t", "i", "a", "l">>>>

\* any(word in lowered for word in important_words)
has_important_word(lowered) ==
    \E w \in 1..Len(important_words) : contains(lowered, important_words[w])

\* qa_system.py lines 135-140: whether a trimmed sentence is kept
is_key_phrase(sentence) ==
    /\ Len(sentence) > 20
    /\ Len(sentence) < 150
    /\ has_important_word(lower(sentence))

\* qa_system.py lines 134-140: a sentence, trimmed, if it is kept
kept_phrase(sentence) == IF is_key_phrase(sentence) THEN <<sentence>> ELSE <<>>

RECURSIVE key_phrase_loop(_)
key_phrase_loop(sentences) ==
    IF sentences = <<>> THEN <<>>
    ELSE kept_phrase(strip(Head(sentences))) \o key_phrase_loop(Tail(sentences))

\* key_phrases[:3]
first_three(phrases) == SubSeq(phrases, 1, Min2(3, Len(phrases)))

\* EnhancedQASystem._extract_key_phrases_from_answer
_extract_key_phrases_from_answer(answer) == first_three(key_phrase_loop(split_dots(answer)))

RECURSIVE total_length(_)
total_length(docs) ==
    IF docs = <<>> THEN 0 ELSE Head(docs).content_len + total_length(Tail(docs))

(* _calculate_confidence in exact arithmetic. With n sources of total      *)
(* length t, num_sources * 0.2 + avg_content_length / 1000 * 0.3 is         *)
(* score_num / score_den hundredths.                                       *)

\* a score that gives the length the weight of the count
score_num_swapped(n, t) == 3000 * n * n + 2 * t

\* a score that adds the total length where the code adds the average
score_num_total(n, t) == 2000 * n * n + 3 * t * n

score_num(n, t) == 2000 * n * n + 3 * t

score_den(n) == 100 * n

\* min(1.0, ...) of num/den hundredths, as a numerator over den
capped(num, den) == Min2(100 * den, num)

\* round(confidence, 2): the hundredths nearest to num/den. The code rounds a
\* binary float, so a value halfway between two hundredths goes to either.
rounded(num, den) ==
    IF (2 * num) % (2 * den) = den
    THEN {num \div den, (num \div den) + 1}
    ELSE {((2 * num) + den) \div (2 * den)}

\* EnhancedQASystem._calculate_confidence: the values it can return
_calculate_confidence(docs) ==
    IF docs = <<>> THEN {0}
    ELSE rounded(capped(score_num(Len(docs), total_length(docs)), score_den(Len(docs))),
                 score_den(Len(docs)))

\* an except clause that lets the exception through
error_response_reraise(exc) ==
    [raised |-> TRUE,
     value |-> [answer |-> <<"Error generating response: ">> \o exc,
                citations |-> <<>>, sources_info |-> <<>>, source_documents |-> <<>>,
                key_phrases |-> <<>>, confidence |-> 0]]

\* qa_system.py lines 97-105: the except clause
error_response(exc) ==
    [raised |-> FALSE,
     value |-> [answer |-> <<"Error generating response: ">> \o exc,
                citations |-> <<>>, sources_info |-> <<>>, source_documents |-> <<>>,
                key_phrases |-> <<>>, confidence |-> 0]]

\* qa_system.py lines 74-95: the try block, given that the chain answered
enhanced_response(docs, answer, conf) ==
    [raised |-> FALSE,
     value |-> [answer |-> answer,
                citations |-> create_citation(docs),
                sources_info |-> _extract_source_info(docs),
                source_documents |-> docs,
                key_phrases |-> _extract_key_phrases_from_answer(answer),
                confidence |-> conf]]

(* EnhancedQASystem.get_enhanced_response. chain_built: self.qa_chain is    *)
(* not None. env: what the chain call meets, "ok", "retrieval_error" (the  *)
(* query embedding or the vector search raises) or "generator_error" (the  *)
(* model call raises). docs, answer: what the chain returns. conf: one of  *)
(* the values of _calculate_confidence(docs).                              *)
get_enhanced_response(chain_built, env, docs, answer, conf) ==
    IF ~chain_built THEN error_response(<<"'NoneType' object is not callable">>)
    ELSE IF env = "retrieval_error" THEN error_response(<<"retrieval failed">>)
    ELSE IF env = "generator_error" THEN error_response(<<"generator failed">>)
    ELSE enhanced_response(docs, answer, conf)

(* The inputs of the answer engine. *)

SourceNames == {<<"a">>, <<"a", "_", "1">>}

source_doc(s, p, n) ==
    [content_len |-> n,
     metadata |-> [source |-> s, page_number |-> p, chunk_id |-> 0, file_type |-> <<"p", "d", "f">>]]

\* create_citation reads the metadata only and _calculate_confidence the
\* length only: the names and pages vary at one length, the lengths at one
\* name and page; one document has neither a source nor a page_number
SourceDocs ==
    {source_doc(s, p, 100) : s \in SourceNames, p \in 1..2}
    \cup {source_doc(<<"a">>, 1, n) : n \in {150, 500, 2000}}
    \cup {[content_len |-> 100, metadata |-> [chunk_id |-> 0]]}

AnswerShort == <<"N", "o", ".">>

AnswerKey == <<"T", "h", "e", " ", "K", "e", "y", " ", "p", "o", "i", "n", "t", " ", "i", "s", " ", "s", "t", "a", "t", "e", "d", " ", "o", "n", " ", "p", "a", "g", "e", " ", "o", "n", "e", ".", " ", "I", "t", " ", "i", "s", " ", "s", "h", "o", "r", "t", ".">>

AnswerMany ==
    <<"t", "h", "e", " ", "m", "a", "i", "n", " ", "t", "o", "p", "i", "c", " ", "i", "s", " ", "t", "h", "e", " ", "f", "i", "r", "s", "t", " ", "o", "n", "e", ".", " ", "t", "h", "e", " ", "p", "r", "i", "m", "a", "r", "y", " ", "g", "o", "a", "l", " ", "i", "s", " ", "t", "h", "e", " ", "s", "e", "c", "o", "n", "d", ".", " ">>
    \o <<"a", "n", " ", "e", "s", "s", "e", "n", "t", "i", "a", "l", " ", "p", "a", "r", "t", " ", "i", "s", " ", "t", "h", "e", " ", "t", "h", "i", "r", "d", " ", "o", "n", "e", ".", " ", "t", "h", "e", " ", "i", "m", "p", "o", "r", "t", "a", "n", "t", " ", "f", "a", "c", "t", " ", "i", "s", " ", "l", "a", "s", "t", ".">>

SampleAnswers == {AnswerShort, AnswerKey, AnswerMany}

NoResponse ==
    [raised |-> FALSE,
     value |-> [answer |-> <<>>, citations |-> <<>>, sources_info |-> <<>>,
                source_documents |-> <<>>, key_phrases |-> <<>>, confidence |-> 0]]

\* one call of create_citation on the documents drawn
CreateCitation ==
    /\ last_op = "init"
    /\ citation' = create_citation(source_docs)
    /\ last_op' = "create_citation"
    /\ UNCHANGED <<source_docs, confidence, response, call_env>>
    /\ UNCHANGED outsideAnswer

\* one call of _calculate_confidence on the documents drawn
CalculateConfidence ==
    /\ last_op = "init"
    /\ confidence' \in _calculate_confidence(source_docs)
    /\ last_op' = "_calculate_confidence"
    /\ UNCHANGED <<source_docs, citation, response, call_env>>
    /\ UNCHANGED outsideAnswer

\* one call of get_enhanced_response whose chain returns the documents drawn
GetEnhancedResponse ==
    /\ last_op = "init"
    /\ \E env \in {"ok", "no_chain", "retrieval_error", "generator_error"} :
       \E answer \in SampleAnswers :
       \E conf \in _calculate_confidence(source_docs) :
          /\ response' = get_enhanced_response(env # "no_chain", env, source_docs,
                                               answer, conf)
          /\ call_env' = env
    /\ last_op' = "get_enhanced_response"
    /\ UNCHANGED <<source_docs, citation, confidence>>
    /\ UNCHANGED outsideAnswer

----------------------------------------------------------------------------
(* app.py and the index of qa_system.py.                                   *)
(*                                                                         *)
(* An attribute that can be None is the empty sequence when it is None and *)
(* a one-element sequence otherwise.                                       *)

None == <<>>

Some(x) == <<x>>

\* app.py lines 29-34
SessionDefaults ==
    [messages |-> <<>>, conversation_history |-> <<>>,
     document_metadata |-> EmptyDict, executive_summary |-> <<>>]

\* EnhancedQASystem.__init__, lines 20-22
NewQASystem == [vectorstore |-> None, qa_chain |-> None, document_metadata |-> EmptyDict]

\* search_kwargs={"k": 5}
RetrieverK == 5

\* Chroma.from_documents(documents, embeddings, persist_directory="./chroma_db"):
\* the store opens the collection kept in the directory and adds the documents
from_documents(db, documents) == [collection |-> db \o documents]

\* EnhancedQASystem._setup_qa_chain: the chain retrieves from the vectorstore
_setup_qa_chain(vectorstore) ==
    Some([retriever |-> vectorstore[1].collection, k |-> RetrieverK])

(* EnhancedQASystem.initialize_vectorstore. outcome is what the call meets: *)
(* "ok"; "embeddings_error" (line 27-32 raises); "from_documents_error"    *)
(* (embedding a chunk or writing the store raises, line 34);               *)
(* "setup_error" (_setup_qa_chain raises, line 41).                        *)
initialize_vectorstore(qa, documents, metadata, outcome, db) ==
    IF outcome \in {"embeddings_error", "from_documents_error"}
    THEN [qa |-> qa, returned |-> FALSE]
    ELSE IF outcome = "setup_error"
    THEN [qa |-> [qa EXCEPT !.vectorstore = Some(from_documents(db, documents)),
                            !.document_metadata = metadata],
          returned |-> FALSE]
    ELSE [qa |-> [vectorstore |-> Some(from_documents(db, documents)),
                  document_metadata |-> metadata,
                  qa_chain |-> _setup_qa_chain(Some(from_documents(db, documents)))],
          returned |-> TRUE]

BuildOutcomes == {"ok", "embeddings_error", "from_documents_error", "setup_error"}

\* qa_system.py line 162
summary_line(metadata) ==
    <<"*", "*">> \o metadata.filename \o <<"*", "*", ":", " ">> \o metadata.summary

(* EnhancedQASystem.generate_executive_summary. llm: "error" when the      *)
(* model call raises, otherwise the text the model returns.                *)
generate_executive_summary(qa, llm) ==
    IF Cardinality(DOMAIN qa.document_metadata) > 1
    THEN IF llm = "error"
         THEN <<"Error generating executive summary: ", "llm failed">>
         ELSE <<llm>>
    ELSE IF Cardinality(DOMAIN qa.document_metadata) = 1
    THEN summary_line(qa.document_metadata[CHOOSE k \in DOMAIN qa.document_metadata : TRUE])
    ELSE <<"No documents loaded for summary generation.">>

LlmOutcomes == {"error", "combined summary"}

\* what the answer engine reads of an indexed Document
as_source(d) == [content_len |-> Len(d.page_content), metadata |-> d.metadata]

\* the k most similar documents of a collection, in an order the model does
\* not know: every sequence of min(k, n) distinct documents
retrievals(collection, k) ==
    {[i \in DOMAIN order |-> as_source(collection[order[i]])] :
        order \in {o \in [1..Min2(k, Len(collection)) -> 1..Len(collection)] :
                      \A i, j \in DOMAIN o : i # j => o[i] # o[j]}}

\* the files the uploader accepts (type=['pdf', 'txt'])
AppFiles == {FilePdf, FileTxt, FileBlank}

Uploads == UNION {[1..n -> AppFiles] : n \in 1..MaxUpload}

Prompts == {<<"What is the key point?">>}

\* what the model replies in the session
AppAnswers == {AnswerKey}

NoAsk == [index_empty |-> TRUE, outcome |-> "none"]

NoBuild == [called |-> FALSE, returned |-> FALSE, before |-> NewQASystem,
            after_reset |-> FALSE]

\* app.py lines 58-63: the batch was processed
index_batch(r, outcome, persisted, llm) ==
    \E built \in {initialize_vectorstore(qa_system, r.data.documents, r.data.metadata,
                                         outcome, chroma_db)} :
        /\ qa_system' = built.qa
        /\ chroma_db' = IF outcome \in {"ok", "setup_error"} /\ persisted
                        THEN chroma_db \o r.data.documents
                        ELSE chroma_db
        /\ session_state' =
              [session_state EXCEPT
                  !.document_metadata = r.data.metadata,
                  !.executive_summary = generate_executive_summary(built.qa, llm)]
        /\ last_build' = [called |-> TRUE, returned |-> built.returned,
                          before |-> qa_system, after_reset |-> reset_pending]
        /\ reset_pending' = (reset_pending /\ ~built.returned)

\* app.py lines 52-65: the button "Process Documents"
ProcessDocuments ==
    /\ \E files \in Uploads :
          /\ next_uuid + Len(files) - 1 <= MaxUuid
          /\ uploaded_files' = files
          /\ next_uuid' = next_uuid + Len(files)
          /\ \E r \in {process_multiple_documents(files, next_uuid)} :
                /\ result' = r
                /\ IF r.success
                   THEN \E outcome \in BuildOutcomes : \E persisted \in BOOLEAN :
                        \E llm \in LlmOutcomes :
                           index_batch(r, outcome, persisted, llm)
                   ELSE /\ last_build' = [last_build EXCEPT !.called = FALSE]
                        /\ UNCHANGED <<session_state, qa_system, chroma_db, reset_pending>>
    /\ last_op' = "process_documents"
    /\ UNCHANGED <<clock, last_ask>>
    /\ UNCHANGED outsideApp

\* a handler that keeps only the newest turn in the log
answer_question_overwrite(prompt, env, docs, answer, conf) ==
    \E r \in {get_enhanced_response(qa_system.qa_chain # None, env, docs, answer, conf)} :
        /\ session_state' =
              [session_state EXCEPT
                  !.messages = @ \o <<[role |-> "user", content |-> prompt],
                                      [role |-> "assistant", content |-> r.value.answer]>>,
                  !.conversation_history =
                      <<[question |-> prompt, answer |-> r.value.answer,
                         timestamp |-> clock]>>]
        /\ clock' = clock + 1
        /\ last_ask' = [index_empty |-> qa_system.vectorstore = None, outcome |-> "answer"]

\* app.py lines 183-200: the question goes to the QA system
answer_question(prompt, env, docs, answer, conf) ==
    \E r \in {get_enhanced_response(qa_system.qa_chain # None, env, docs, answer, conf)} :
        /\ session_state' =
              [session_state EXCEPT
                  !.messages = @ \o <<[role |-> "user", content |-> prompt],
                                      [role |-> "assistant", content |-> r.value.answer]>>,
                  !.conversation_history =
                      Append(@, [question |-> prompt, answer |-> r.value.answer,
                                 timestamp |-> clock])]
        /\ clock' = clock + 1
        /\ last_ask' = [index_empty |-> qa_system.vectorstore = None, outcome |-> "answer"]

\* app.py lines 177-200: a question typed into the chat input
Ask ==
    /\ clock < MaxTurns
    /\ \E prompt \in Prompts :
          IF session_state.document_metadata = EmptyDict
          THEN /\ last_ask' = [index_empty |-> qa_system.vectorstore = None,
                               outcome |-> "upload_first_error"]
               /\ UNCHANGED <<session_state, clock>>
          ELSE IF qa_system.qa_chain = None
          THEN answer_question(prompt, "no_chain", <<>>, <<>>, 0)
          ELSE \E env \in {"ok", "retrieval_error", "generator_error"} :
               \E docs \in retrievals(qa_system.qa_chain[1].retriever,
                                      qa_system.qa_chain[1].k) :
               \E answer \in AppAnswers :
               \E conf \in _calculate_confidence(docs) :
                  answer_question(prompt, env, docs, answer, conf)
    /\ last_op' = "ask"
    /\ UNCHANGED <<qa_system, chroma_db, last_build, reset_pending, ingestVars>>
    /\ UNCHANGED outsideApp

\* app.py line 139: the clear buttons are shown
ClearShown ==
    \/ session_state.conversation_history # <<>>
    \/ session_state.document_metadata # EmptyDict

\* a Clear Chat that empties the log and leaves the messages
ClearChat_log_only ==
    /\ ClearShown
    /\ session_state' = [session_state EXCEPT !.conversation_history = <<>>]
    /\ last_op' = "clear_chat"
    /\ UNCHANGED <<qa_system, chroma_db, clock, last_ask, last_build, reset_pending>>
    /\ UNCHANGED ingestVars
    /\ UNCHANGED outsideApp

\* app.py lines 144-147: the button "Clear Chat"
ClearChat ==
    /\ ClearShown
    /\ session_state' = [session_state EXCEPT !.messages = <<>>,
                                              !.conversation_history = <<>>]
    /\ last_op' = "clear_chat"
    /\ UNCHANGED <<qa_system, chroma_db, clock, last_ask, last_build, reset_pending>>
    /\ UNCHANGED ingestVars
    /\ UNCHANGED outsideApp

\* app.py lines 150-156: the button "Clear All". st.cache_resource.clear()
\* drops the cached systems, so the next init_systems() builds new ones.
ClearAll ==
    /\ ClearShown
    /\ qa_system' = NewQASystem
    /\ session_state' = SessionDefaults
    /\ reset_pending' = TRUE
    /\ last_op' = "clear_all"
    /\ UNCHANGED <<chroma_db, clock, last_ask, last_build>>
    /\ UNCHANGED ingestVars
    /\ UNCHANGED outsideApp

----------------------------------------------------------------------------
(* Specifications: one for the interactive session, and one for each       *)
(* function checked on its own, whose initial states draw its arguments.   *)

ChunkIdle ==
    /\ text = <<>> /\ chunk_size = DocChunkSize /\ chunk_overlap = DocChunkOverlap
    /\ start = 0 /\ chunks = <<>> /\ windows = <<>> /\ pc = "done"

IngestIdle == uploaded_files = <<>> /\ result = NoResult /\ next_uuid = 1

AnswerIdle ==
    /\ source_docs = <<>> /\ citation = <<>> /\ confidence = 0
    /\ response = NoResponse /\ call_env = "none"

AppIdle ==
    /\ session_state = SessionDefaults /\ qa_system = NewQASystem /\ chroma_db = <<>>
    /\ clock = 0 /\ last_ask = NoAsk /\ last_build = NoBuild /\ reset_pending = FALSE

\* a new session of a new deployment
Init ==
    /\ AppIdle
    /\ ChunkIdle
    /\ IngestIdle
    /\ AnswerIdle
    /\ last_op = "init"

Next == ProcessDocuments \/ Ask \/ ClearChat \/ ClearAll

Spec == Init /\ [][Next]_vars

InitChunk ==
    /\ text \in Texts
    /\ chunk_size \in 1..MaxSize
    /\ chunk_overlap \in 0..MaxOverlap
    /\ start = 0
    /\ chunks = <<>>
    /\ windows = <<>>
    /\ pc = "call"
    /\ IngestIdle
    /\ AnswerIdle
    /\ AppIdle
    /\ last_op = "init"

NextChunk == ChunkEnter \/ ChunkIterate

SpecChunk == InitChunk /\ [][NextChunk]_vars

InitAnswer ==
    /\ source_docs \in UNION {[1..n -> SourceDocs] : n \in 0..MaxSources}
    /\ citation = <<>>
    /\ confidence = 0
    /\ response = NoResponse
    /\ call_env = "none"
    /\ last_op = "init"
    /\ ChunkIdle
    /\ IngestIdle
    /\ AppIdle

NextAnswer == CreateCitation \/ CalculateConfidence \/ GetEnhancedResponse

SpecAnswer == InitAnswer /\ [][NextAnswer]_vars

InitIngest ==
    /\ uploaded_files \in Batches
    /\ result = NoResult
    /\ next_uuid = 1
    /\ last_op = "init"
    /\ ChunkIdle
    /\ AnswerIdle
    /\ AppIdle

NextIngest == IngestBatch

SpecIngest == InitIngest /\ [][NextIngest]_vars

----------------------------------------------------------------------------
(* Claims about chunk_text, checked under SpecChunk. *)

ValidChunkParams == chunk_size > 0 /\ 0 <= chunk_overlap /\ chunk_overlap < chunk_size

\* the start offset the loop moved to after iteration i
StartAfter(i) == IF i < Len(windows) THEN windows[i + 1].s ELSE start

\* Python index p lies in the slice text[w.s:w.e]
InWindow(w, p) ==
    /\ SliceIndex(w.s, Len(text)) <= p
    /\ p < SliceIndex(w.e, Len(text))

\* C6: chunk_text called with chunk_overlap >= chunk_size fails with a
\* ConfigurationError: it appends no chunk and does not return normally.
C6_OverlapRejected ==
    (chunk_overlap >= chunk_size /\ text # <<>>) =>
        (chunks = <<>> /\ pc # "done")

\* C7: with 0 <= chunk_overlap < chunk_size the start offset strictly
\* increases on every loop iteration.
C7_ForwardProgress ==
    ValidChunkParams =>
        \A i \in 1..Len(windows) : StartAfter(i) > windows[i].s

\* C8: for a non-empty text and 0 <= chunk_overlap < chunk_size, when
\* chunk_text returns, every non-whitespace position of the text lies in the
\* window of a returned chunk, each window starts no later than the end of
\* the window before it, and no chunk is longer than chunk_size.
C8_CoverageNoGaps ==
    (pc = "done" /\ text # <<>> /\ ValidChunkParams) =>
        /\ \A p \in 0..(Len(text) - 1) :
              text[p + 1] \notin Whitespace =>
                 \E i \in 1..Len(windows) :
                    windows[i].kept /\ InWindow(windows[i], p)
        /\ \A i \in 1..(Len(windows) - 1) : windows[i + 1].s <= windows[i].e
        /\ Len(chunks) = Cardinality({i \in 1..Len(windows) : windows[i].kept})
        /\ \A i \in 1..Len(chunks) : Len(chunks[i]) <= chunk_size

\* chunk_text returned several chunks, one of them from a window cut at a
\* sentence terminator, and dropped a blank window
C8_Witness ==
    /\ pc = "done" /\ ValidChunkParams
    /\ Len(chunks) >= 2
    /\ \E i \in 1..Len(windows) : windows[i].e < windows[i].s + chunk_size
    /\ \E i \in 1..Len(windows) : ~windows[i].kept

----------------------------------------------------------------------------
(* Claims about process_multiple_documents, checked under SpecIngest. *)

\* a file that does not fail: a supported extension, no exception, and text
\* left after trimming
ValidFile(f) ==
    /\ endswith(f.name, DotPdf) \/ endswith(f.name, DotTxt)
    /\ f.fault = "none"
    /\ strip(concat(f.pages)) # <<>>

ValidIndices == {i \in 1..Len(uploaded_files) : ValidFile(uploaded_files[i])}

\* the chunks of the valid files of a batch, in upload order, each with the
\* name of its file
RECURSIVE ExpectedChunks(_)
ExpectedChunks(files) ==
    IF files = <<>> THEN <<>>
    ELSE (IF ValidFile(Head(files))
          THEN LET cs == chunk_text(concat(Head(files).pages), DocChunkSize, DocChunkOverlap)
               IN  [i \in 1..Len(cs) |-> [source |-> Head(files).name, page_content |-> cs[i]]]
          ELSE <<>>)
         \o ExpectedChunks(Tail(files))

ReturnedChunks ==
    [i \in 1..Len(result.data.documents) |->
        [source |-> result.data.documents[i].metadata.source,
         page_content |-> result.data.documents[i].page_content]]

\* C4: a batch with at least one valid file succeeds whatever its other files
\* do; the message counts the valid files out of the batch size, the metadata
\* has exactly one entry per valid file, and the documents are exactly the
\* chunks of the valid files in upload order.
C4_PerDocumentIsolation ==
    (last_op = "process_multiple_documents" /\ ValidIndices # {}) =>
        /\ result.success
        /\ result.message = <<"Processed ">> \o str(Cardinality(ValidIndices)) \o <<"/">>
                            \o str(Len(uploaded_files)) \o <<" documents successfully.">>
        /\ Cardinality(DOMAIN result.data.metadata) = Cardinality(ValidIndices)
        /\ \A i \in ValidIndices :
              \E k \in DOMAIN result.data.metadata :
                 /\ result.data.metadata[k].filename = uploaded_files[i].name
                 /\ result.data.metadata[k].file_id = k
        /\ ReturnedChunks = ExpectedChunks(uploaded_files)

\* three files, the middle one of an unsupported type, the other two valid and
\* one of them in two chunks: reported as 2/3
C4_Witness ==
    /\ last_op = "process_multiple_documents"
    /\ Len(uploaded_files) = 3
    /\ ValidIndices = {1, 3}
    /\ ~(endswith(uploaded_files[2].name, DotPdf) \/ endswith(uploaded_files[2].name, DotTxt))
    /\ result.success
    /\ result.message = <<"Processed ", "2", "/", "3", " documents successfully.">>
    /\ Len(result.data.documents) = 3

----------------------------------------------------------------------------
(* Claims about the answer engine, checked under SpecAnswer. *)

\* the (filename, page_number) pair of a source chunk, as it is printed
PairOf(doc) == <<source_of(doc.metadata), page_of(doc.metadata)>>

\* the positions of source_docs whose pair occurs at no earlier position
FirstSeen ==
    ascending({i \in 1..Len(source_docs) :
                 \A j \in 1..(i - 1) : PairOf(source_docs[j]) # PairOf(source_docs[i])})

\* "<filename> (Page <page_number>)"
FormatPair(pair) == pair[1] \o <<" ", "(", "P", "a", "g", "e", " ">> \o pair[2] \o <<")">>

\* C9: create_citation yields one entry per distinct (filename, page_number)
\* pair, in order of first occurrence, each "<filename> (Page <n>)", joined
\* with "; "; chunks with different pairs are never merged into one entry.
C9_CitationDedup ==
    last_op = "create_citation" =>
        citation = join(<<";", " ">>,
                        [k \in 1..Len(FirstSeen) |->
                            FormatPair(PairOf(source_docs[FirstSeen[k]]))])

\* sources (a,1), (a,1), (a_1,2) give "a (Page 1); a_1 (Page 2)"
C9_Witness ==
    /\ last_op = "create_citation"
    /\ Len(source_docs) = 3
    /\ PairOf(source_docs[1]) = <<<<"a">>, str(1)>>
    /\ PairOf(source_docs[2]) = <<<<"a">>, str(1)>>
    /\ PairOf(source_docs[3]) = <<<<"a", "_", "1">>, str(2)>>
    /\ citation = <<"a", " ", "(", "P", "a", "g", "e", " ", "1", ")", ";", " ", "a", "_", "1", " ", "(", "P", "a", "g", "e", " ", "2", ")">>

\* 0.2 * num_sources + 0.3 * (avg_chunk_length / 1000), in hundredths, as
\* the fraction ExactNum / ExactDen
ExactNum == 2000 * Len(source_docs) * Len(source_docs) + 3 * total_length(source_docs)

ExactDen == 100 * Len(source_docs)

\* C10: the confidence is min(1.0, 0.2 * num_sources + 0.3 *
\* (avg_chunk_length / 1000)) rounded to 2 decimals (a hundredth nearest to
\* it), 0.0 when there are no sources, and always between 0.0 and 1.0.
C10_ConfidenceFormula ==
    last_op = "_calculate_confidence" =>
        /\ confidence \in 0..100
        /\ source_docs = <<>> => confidence = 0
        /\ source_docs # <<>> =>
              /\ 2 * (confidence * ExactDen - Min2(100 * ExactDen, ExactNum)) <= ExactDen
              /\ 2 * (Min2(100 * ExactDen, ExactNum) - confidence * ExactDen) <= ExactDen

\* two sources of 100 and 500 characters give 0.49, below the cap
C10_Witness ==
    /\ last_op = "_calculate_confidence"
    /\ Len(source_docs) = 2
    /\ total_length(source_docs) = 600
    /\ confidence = 49

ErrorPrefix == "Error generating response: "

\* C5: get_enhanced_response never raises; when retrieval or the generator
\* call fails it returns a result whose answer is an error string and whose
\* citations, sources_info and key_phrases are empty and confidence zero.
C5_GracefulDegradation ==
    last_op = "get_enhanced_response" =>
        /\ ~response.raised
        /\ DOMAIN response.value = {"answer", "citations", "sources_info",
                                    "source_documents", "key_phrases", "confidence"}
        /\ call_env # "ok" =>
              /\ Len(response.value.answer) = 2
              /\ response.value.answer[1] = ErrorPrefix
              /\ response.value.citations = <<>>
              /\ response.value.sources_info = <<>>
              /\ response.value.key_phrases = <<>>
              /\ response.value.confidence = 0

\* the generator call failed after the retriever had found sources
C5_Witness ==
    /\ last_op = "get_enhanced_response"
    /\ call_env = "generator_error"
    /\ source_docs # <<>>
    /\ ~response.raised
    /\ response.value.answer[1] = ErrorPrefix

----------------------------------------------------------------------------
(* Claims about the session, checked under Spec. *)

\* C1: a question asked while the index is empty (no vector store has been
\* built in the QA system) is rejected with a no-documents error; it never
\* reaches the QA system and never comes back as an ordinary answer.
C1_EmptyIndexFailsFast ==
    (last_op = "ask" /\ last_ask.index_empty) =>
        last_ask.outcome = "upload_first_error"

\* C2: the first index built after Clear All holds exactly the chunks of the
\* batch just ingested and none from before the reset.
C2_ResetLeavesNothing ==
    (last_op = "process_documents" /\ last_build.called /\ last_build.returned
        /\ last_build.after_reset) =>
        qa_system.vectorstore = Some([collection |-> result.data.documents])

\* C3: when initialize_vectorstore returns False, the vectorstore, the
\* document_metadata and the qa_chain of the QA system are what they were
\* before the call.
C3_AtomicBuild ==
    (last_op = "process_documents" /\ last_build.called /\ ~last_build.returned) =>
        qa_system = last_build.before

----------------------------------------------------------------------------
(* Worked examples of the confidence score, checked under SpecAnswer. *)

\* the lengths of the source documents, in order
Lengths == [i \in 1..Len(source_docs) |-> source_docs[i].content_len]

\* C11 as stated: 3 sources each of length 500 have confidence 1.0, and 1
\* source of length 100 has confidence 0.23.
C11_ExamplesAsStated ==
    last_op = "_calculate_confidence" =>
        /\ Lengths = <<500, 500, 500>> => confidence = 100
        /\ Lengths = <<100>> => confidence = 23

\* C11 amended: 3 sources each of length 500 have confidence 0.75
\* (0.6 + 0.3 * 500 / 1000), and 1 source of length 100 has confidence 0.23.
C11_Examples ==
    last_op = "_calculate_confidence" =>
        /\ Lengths = <<500, 500, 500>> => confidence = 75
        /\ Lengths = <<100>> => confidence = 23

\* _calculate_confidence ran on 3 sources each of length 500
C11_Witness ==
    /\ last_op = "_calculate_confidence"
    /\ Lengths = <<500, 500, 500>>
    /\ confidence = 75

----------------------------------------------------------------------------
(* Further claims about the session, checked under Spec. *)

\* the documents loaded in the QA system
Loaded == DOMAIN qa_system.document_metadata

\* C12: when exactly one document is loaded, the executive summary that
\* generate_executive_summary returned is that document's stored summary,
\* with nothing added or removed.
C12_SingleSummaryVerbatim ==
    (last_op = "process_documents" /\ last_build.called /\ Cardinality(Loaded) = 1) =>
        \A k \in Loaded :
            session_state.executive_summary = qa_system.document_metadata[k].summary

\* a is an initial part of b
IsPrefix(a, b) == Len(a) <= Len(b) /\ SubSeq(b, 1, Len(a)) = a

\* C13: the conversation log is ordered and append-only. A question that is
\* accepted appends exactly one turn at the end, a rejected question and
\* Process Documents leave the log as it is, and only Clear Chat and Clear
\* All make it shorter.
C13_AppendOnlyLog ==
    [][ /\ (last_op' = "ask" /\ last_ask'.outcome = "answer") =>
              /\ Len(session_state'.conversation_history)
                    = Len(session_state.conversation_history) + 1
              /\ IsPrefix(session_state.conversation_history,
                          session_state'.conversation_history)
              /\ session_state'.conversation_history[
                     Len(session_state'.conversation_history)].timestamp = clock
        /\ (last_op' = "ask" /\ last_ask'.outcome # "answer") =>
              session_state'.conversation_history = session_state.conversation_history
        /\ last_op' = "process_documents" =>
              session_state'.conversation_history = session_state.conversation_history
        /\ last_op' \in {"clear_chat", "clear_all"} =>
              session_state'.conversation_history = <<>>
      ]_vars

\* two turns, the first a degraded error answer, are still in the log after
\* a further batch was processed
C13_Witness ==
    /\ last_op = "process_documents"
    /\ Len(session_state.conversation_history) = 2
    /\ session_state.conversation_history[1].answer[1] = ErrorPrefix
    /\ session_state.conversation_history[2].answer = AnswerKey
    /\ session_state.conversation_history[1].timestamp
          < session_state.conversation_history[2].timestamp

\* C14: every turn in the conversation log carries, besides question, answer
\* and timestamp, the citations of its answer and its confidence.
C14_TurnsCarrySources ==
    \A i \in 1..Len(session_state.conversation_history) :
        {"question", "answer", "timestamp", "citations", "confidence"}
            \subseteq DOMAIN session_state.conversation_history[i]

\* every entry of dict a is in dict b, unchanged
Retained(a, b) == \A k \in DOMAIN a : k \in DOMAIN b /\ b[k] = a[k]

\* C15: processing a further batch of uploads never removes or replaces the
\* metadata of documents ingested earlier, in the session and in the QA
\* system; they go only with Clear All.
C15_DocumentsStay ==
    [][ last_op' = "process_documents" =>
            /\ Retained(session_state.document_metadata, session_state'.document_metadata)
            /\ Retained(qa_system.document_metadata, qa_system'.document_metadata)
      ]_vars

\* C16: whenever session_state.document_metadata is non-empty, the QA system
\* has a built vector store and QA chain, and its document_metadata equals
\* session_state.document_metadata.
C16_SessionMatchesIndex ==
    session_state.document_metadata # EmptyDict =>
        /\ qa_system.vectorstore # None
        /\ qa_system.qa_chain # None
        /\ qa_system.document_metadata = session_state.document_metadata

----------------------------------------------------------------------------
(* A further claim about chunk_text, checked under SpecChunk. *)

\* C18: for valid parameters, a window that reaches the end of the text is
\* the last one of the call, and a non-blank text no longer than chunk_size
\* yields exactly one chunk.
C18_EndWindowIsLast ==
    (pc = "done" /\ ValidChunkParams) =>
        /\ \A i \in 1..Len(windows) : windows[i].e >= Len(text) => i = Len(windows)
        /\ (strip(text) # <<>> /\ Len(text) <= chunk_size) => Len(chunks) = 1

============================================================================
